---- MODULE Spec2Model ----
(***************************************************************************)
(* Speech Analysis Assistant: the capture state machine and the analysis   *)
(* orchestration of its two implementations,                               *)
(*   - the older page flow      (src/src/app/page.tsx, Home), and          *)
(*   - the newer client component                                          *)
(*                    (src/src/components/speech-analysis-client.tsx).     *)
(* A behaviour runs one of the two components (variable flow).  React      *)
(* state lives in the records page and client; the browser objects the     *)
(* handlers talk to (SpeechRecognition, MediaRecorder, getUserMedia,       *)
(* FileReader, the server action) are the remaining variables.             *)
(***************************************************************************)
EXTENDS Integers, Sequences, FiniteSets, TLC

VARIABLES
    flow,            \* "page" or "client": which component is mounted
    page,            \* useState values of Home (page.tsx 42-54)
    client,          \* useState values of SpeechAnalysisClient (client 118-130)
    recognition,     \* the SpeechRecognition session: "idle", "running", "stopping"
    recError,        \* an error event queued for recognition.onerror, or "none"
    final_transcript,\* the closure variable of the client's onresult (client 149)
    recorders,       \* state of every MediaRecorder created so far
    mediaRecorderRef,\* mediaRecorderRef.current: index into recorders, 0 = null
    gumPending,      \* getUserMedia promises not yet settled
    readers,         \* handleAnalyze invocations awaiting the FileReader
    calls,           \* inference requests issued and not yet handled
    nextId,          \* number of handleAnalyze invocations accepted so far
    maxClicks,       \* Analyze clicks the scenario lets past validation
    sent,            \* the request the last step passed to the server action
    notice,          \* title of the toast the last step raised, or "none"
    untouched,       \* TRUE from a tab switch until the user supplies input again
    response,        \* what the language model answered to the request followed
    returned,        \* what the server flow handed back for that answer
    dashboard,       \* the cards the component rendered for the result
    pdf,             \* the lines the last PDF export placed
    wav              \* the chunks handed to encodeWAV and what it produced

vars == << flow, page, client, recognition, recError, final_transcript,
           recorders, mediaRecorderRef, gumPending, readers,
           calls, nextId, maxClicks, sent, notice, untouched,
           response, returned, dashboard, pdf, wav >>

report == << response, returned, dashboard, pdf, wav >>

browser == << recognition, recError, final_transcript, recorders,
              mediaRecorderRef, gumPending >>

analysis == << readers, calls, nextId, maxClicks >>

(***************************************************************************)
(* Bounds of the model.                                                    *)
(***************************************************************************)
MaxRecorders == 2      \* MediaRecorder objects created in one behaviour
MaxTranscript == 2     \* recognised chunks appended to one transcript
MaxAnalyze == 2        \* accepted Analyze clicks when the context stays fixed
MaxValidated == 1      \* accepted Analyze clicks when the context is edited
MaxChunks == 3         \* Float32Array chunks handed to encodeWAV
MaxChunkLen == 2       \* samples in one chunk

(***************************************************************************)
(* Text.  A string is a sequence of chunks; the empty string is << >>.     *)
(* " " is a chunk of white space, every other chunk holds visible text.    *)
(***************************************************************************)
Empty == << >>

Blank == << " " >>

RECURSIVE TrimStart(_)
TrimStart(s) ==
    IF s # << >> /\ Head(s) = " " THEN TrimStart(Tail(s)) ELSE s

RECURSIVE TrimEnd(_)
TrimEnd(s) ==
    IF s # << >> /\ s[Len(s)] = " " THEN TrimEnd(SubSeq(s, 1, Len(s) - 1)) ELSE s

Trim(s) == TrimEnd(TrimStart(s))

\* JavaScript truthiness of a string: '' is falsy, every other string truthy
Truthy(s) == s # << >>

\* what the user can type into the transcript Textarea
TypedTexts == { Empty, Blank, << "hi" >> }

\* what the user can type into the question field
QuestionTexts == { Empty, Blank, << "q" >> }

\* what the user can type into the perfect-answer field
AnswerTexts == { Empty, << "p" >> }

(***************************************************************************)
(* Audio objects.  A Blob is named by where it came from: the recorder     *)
(* whose onstop built it, or the file the user picked.  An object URL is   *)
(* named by the blob it was created from.                                  *)
(***************************************************************************)
Null == [src |-> "null", id |-> 0, type |-> ""]

\* a value no step has produced yet
Unset == [kind |-> "unset"]

RecordedBlob(i, mime) == [src |-> "rec", id |-> i, type |-> mime]

Files == { [src |-> "file", id |-> 1, type |-> "audio/mpeg"],
           [src |-> "file", id |-> 2, type |-> "text/plain"] }

IsAudioType(f) == f.type \in { "audio/mpeg", "audio/wav", "audio/webm" }

(***************************************************************************)
(* SpeechRecognition error codes raised by the browser.                    *)
(***************************************************************************)
ErrorKinds == { "no-speech", "network", "audio-capture", "not-allowed" }

\* the errors the specification calls recoverable
Recoverable == { "no-speech", "network" }

\* one onresult event: the final and the interim text of results[resultIndex..]
ResultEvents == { [final |-> << "w" >>, interim |-> << >>],
                  [final |-> << >>, interim |-> << "w" >>],
                  [final |-> << "w" >>, interim |-> << "w" >>] }

AnalysisModes == { "presentation", "interview", "practice" }

ClientModes == { "Presentation Mode", "Interview Mode", "Practice Mode" }

InputModes == { "live", "audio", "upload" }

ClientTabs == { "live", "record", "upload" }

RecorderIds == 1 .. MaxRecorders

\* the recorders that exist
Created == { i \in RecorderIds : recorders[i] # "none" }

\* the next MediaRecorder to be constructed
NewRecorder == Cardinality(Created) + 1

\* MediaRecorder.stop(): a recording recorder hands over its data and then
\* fires onstop
StopRecorder(recs, ref) ==
    IF ref # 0 /\ recs[ref] = "recording"
    THEN [recs EXCEPT ![ref] = "stopping"]
    ELSE recs

\* no request was passed to the server action
NoRequest == [ mode |-> "none" ]

(***************************************************************************)
(* Initial state: the component is mounted and its effect has run.         *)
(***************************************************************************)
PageInit ==
    [ isLiveRecording |-> FALSE, isAudioRecording |-> FALSE,
      isAnalyzing |-> FALSE, transcript |-> Empty, analysisResult |-> 0,
      isSupported |-> FALSE, analysisMode |-> "presentation",
      inputMode |-> "live", question |-> Empty, perfectAnswer |-> Empty,
      audioUrl |-> Null, audioBlob |-> Null, audioFile |-> Null ]

ClientInit ==
    [ mode |-> "Presentation Mode", question |-> Empty,
      perfectAnswer |-> Empty, transcript |-> Empty, isListening |-> FALSE,
      isRecording |-> FALSE, audioURL |-> Null, audioBlob |-> Null,
      currentTab |-> "live", isLoading |-> FALSE, analysisResult |-> 0,
      isSpeechRecognitionSupported |-> FALSE ]

Mounted(Browsers) ==
    /\ flow \in { "page", "client" }
    /\ \E supported \in Browsers :
          /\ page = [PageInit EXCEPT !.isSupported = (supported /\ flow = "page")]
          /\ client = [ClientInit EXCEPT !.isSpeechRecognitionSupported =
                                             (supported /\ flow = "client")]
    /\ recognition = "idle"
    /\ recError = "none"
    /\ final_transcript = Empty
    /\ recorders = [i \in RecorderIds |-> "none"]
    /\ mediaRecorderRef = 0
    /\ gumPending = 0
    /\ readers = {}
    /\ calls = {}
    /\ nextId = 0
    /\ sent = NoRequest
    /\ notice = "none"
    /\ untouched = FALSE
    /\ response = Unset
    /\ returned = Unset
    /\ dashboard = Unset
    /\ pdf = Unset

\* the state a first recording leaves behind: the user opened the record
\* tab, recorded and stopped, and the recorder's onstop has run
Recorded ==
    /\ flow \in { "page", "client" }
    /\ \E supported \in { TRUE } :
          /\ page = IF flow = "page"
                    THEN [PageInit EXCEPT
                             !.isSupported = supported,
                             !.inputMode = "audio",
                             !.audioUrl = RecordedBlob(1, "audio/wav"),
                             !.audioBlob = RecordedBlob(1, "audio/wav")]
                    ELSE PageInit
          /\ client = IF flow = "client"
                      THEN [ClientInit EXCEPT
                               !.isSpeechRecognitionSupported = supported,
                               !.currentTab = "record",
                               !.audioURL = RecordedBlob(1, "audio/webm"),
                               !.audioBlob = RecordedBlob(1, "audio/webm")]
                      ELSE ClientInit
    /\ recognition = "idle"
    /\ recError = "none"
    /\ final_transcript = Empty
    /\ recorders = [i \in RecorderIds |-> IF i = 1 THEN "inactive" ELSE "none"]
    /\ mediaRecorderRef = 1
    /\ gumPending = 0
    /\ readers = {}
    /\ calls = {}
    /\ nextId = 0
    /\ sent = NoRequest
    /\ notice = "none"
    /\ untouched = FALSE
    /\ response = Unset
    /\ returned = Unset
    /\ dashboard = Unset
    /\ pdf = Unset

\* capture alone: the user never presses Analyze
InitCapture == Mounted(BOOLEAN) /\ maxClicks = 0 /\ wav = Unset

\* the user edits the analysis context and presses Analyze
InitValidate ==
    (Mounted({ TRUE }) \/ Recorded) /\ maxClicks = MaxValidated /\ wav = Unset

\* the user presses Analyze repeatedly under the initial context
InitPipeline ==
    (Mounted({ TRUE }) \/ Recorded) /\ maxClicks = MaxAnalyze /\ wav = Unset

(***************************************************************************)
(* The browser's SpeechRecognition session (continuous, interimResults).   *)
(* start() on a session that has not ended throws InvalidStateError;       *)
(* stop() lets the session deliver what it has and then fire onend.  An    *)
(* error is queued for onerror and terminates the session.                 *)
(***************************************************************************)
RecognitionStop(state) == IF state = "running" THEN "stopping" ELSE state

RaiseRecognitionError ==
    /\ recognition = "running"
    /\ recError = "none"
    /\ \E k \in ErrorKinds : recError' = k
    /\ recognition' = "stopping"
    /\ notice' = "none"
    /\ sent' = NoRequest
    /\ UNCHANGED << flow, report, page, client, final_transcript, recorders,
                    mediaRecorderRef, gumPending, analysis,
                    untouched >>

(***************************************************************************)
(* Older page flow: live transcription (page.tsx 64-126).                  *)
(***************************************************************************)
PageOnResult ==
    /\ flow = "page"
    /\ recognition \in { "running", "stopping" }
    /\ \E e \in ResultEvents :
          /\ Len(page.transcript \o e.final) <= MaxTranscript
          /\ page' = IF Truthy(e.final)
                     THEN [page EXCEPT !.transcript = @ \o e.final]
                     ELSE page
    /\ notice' = "none"
    /\ sent' = NoRequest
    /\ UNCHANGED << flow, report, client, browser, analysis, untouched >>

\* the variant of the early return that lets every error pass silently
PageSwallowedAll == ErrorKinds

\* the errors onerror returns on without doing anything (page.tsx 85)
PageSwallowed == { "network", "no-speech", "audio-capture" }

PageOnError ==
    /\ flow = "page"
    /\ recError # "none"
    /\ recError' = "none"
    /\ IF recError \in PageSwallowed
       THEN /\ notice' = "none"
            /\ sent' = NoRequest
            /\ UNCHANGED page
       ELSE /\ notice' = "Speech Recognition Error"
            /\ sent' = NoRequest
            /\ page' = [page EXCEPT !.isLiveRecording = FALSE]
    /\ UNCHANGED << flow, report, client, recognition, final_transcript, recorders,
                    mediaRecorderRef, gumPending, analysis,
                    untouched >>

\* the variant of onend that leaves the flag as it is
PageOnEndKeepsFlag ==
    /\ flow = "page"
    /\ recognition = "stopping"
    /\ recError = "none"
    /\ recognition' = "idle"
    /\ notice' = "none"
    /\ sent' = NoRequest
    /\ UNCHANGED << flow, report, page, client, recError, final_transcript,
                    recorders, mediaRecorderRef, gumPending, analysis,
                    untouched >>

PageOnEnd ==
    /\ flow = "page"
    /\ recognition = "stopping"
    /\ recError = "none"
    /\ recognition' = "idle"
    /\ page' = [page EXCEPT !.isLiveRecording = FALSE]
    /\ notice' = "none"
    /\ sent' = NoRequest
    /\ UNCHANGED << flow, report, client, recError, final_transcript, recorders,
                    mediaRecorderRef, gumPending, analysis,
                    untouched >>

\* the Start/Stop button of the live tab (page.tsx 473-485)
PageLiveButtonEnabled ==
    /\ page.inputMode = "live"
    /\ page.isSupported
    /\ ~page.isAnalyzing
    /\ ~page.isAudioRecording

handleToggleLiveRecording ==
    /\ flow = "page"
    /\ PageLiveButtonEnabled
    /\ IF page.isLiveRecording
       THEN /\ recognition' = RecognitionStop(recognition)
            /\ page' = [page EXCEPT !.isLiveRecording = FALSE]
       ELSE \* start() throws when the previous session has not ended yet
            /\ recognition' = IF recognition = "idle" THEN "running" ELSE recognition
            /\ page' = [page EXCEPT !.transcript = Empty,
                                    !.analysisResult = 0,
                                    !.isLiveRecording = (recognition = "idle")]
    /\ untouched' = FALSE
    /\ notice' = "none"
    /\ sent' = NoRequest
    /\ UNCHANGED << flow, report, client, recError, final_transcript, recorders,
                    mediaRecorderRef, gumPending, analysis >>

\* typing into the transcript Textarea (page.tsx 464-470)
PageTypeTranscript ==
    /\ flow = "page"
    /\ page.inputMode = "live"
    /\ ~page.isLiveRecording
    /\ \E t \in TypedTexts : page' = [page EXCEPT !.transcript = t]
    /\ untouched' = FALSE
    /\ notice' = "none"
    /\ sent' = NoRequest
    /\ UNCHANGED << flow, report, client, browser, analysis >>

(***************************************************************************)
(* Older page flow: microphone recording (page.tsx 128-167).               *)
(***************************************************************************)
\* the button of the record tab is disabled while analysing or listening
handleToggleAudioRecording ==
    /\ flow = "page"
    /\ page.inputMode = "audio"
    /\ ~page.isAnalyzing
    /\ ~page.isLiveRecording
    /\ IF page.isAudioRecording
       THEN /\ recorders' = StopRecorder(recorders, mediaRecorderRef)
            /\ page' = [page EXCEPT !.isAudioRecording = FALSE]
            /\ UNCHANGED gumPending
       ELSE /\ Cardinality(Created) + gumPending < MaxRecorders
            /\ gumPending' = gumPending + 1
            /\ UNCHANGED << recorders, page >>
    /\ untouched' = FALSE
    /\ notice' = "none"
    /\ sent' = NoRequest
    /\ UNCHANGED << flow, report, client, recognition, recError, final_transcript,
                    mediaRecorderRef, analysis >>

\* getUserMedia resolved: the rest of the try block (page.tsx 135-156)
PageMicGranted ==
    /\ flow = "page"
    /\ gumPending > 0
    /\ gumPending' = gumPending - 1
    /\ mediaRecorderRef' = NewRecorder
    /\ recorders' = [recorders EXCEPT ![NewRecorder] = "recording"]
    /\ page' = [page EXCEPT !.audioUrl = Null, !.audioBlob = Null,
                            !.audioFile = Null, !.analysisResult = 0,
                            !.transcript = Empty, !.isAudioRecording = TRUE]
    /\ notice' = "none"
    /\ sent' = NoRequest
    /\ UNCHANGED << flow, report, client, recognition, recError, final_transcript,
                    analysis, untouched >>

\* a catch block that also raised the recording flag
PageMicDeniedFlagRaised ==
    /\ flow = "page"
    /\ gumPending > 0
    /\ gumPending' = gumPending - 1
    /\ page' = [page EXCEPT !.isAudioRecording = TRUE]
    /\ notice' = "Microphone Access Denied"
    /\ sent' = NoRequest
    /\ UNCHANGED << flow, report, client, recognition, recError,
                    final_transcript, recorders, mediaRecorderRef, analysis, untouched >>

\* getUserMedia rejected: the catch block (page.tsx 158-165)
PageMicDenied ==
    /\ flow = "page"
    /\ gumPending > 0
    /\ gumPending' = gumPending - 1
    /\ notice' = "Microphone Access Denied"
    /\ sent' = NoRequest
    /\ UNCHANGED << flow, report, page, client, recognition, recError,
                    final_transcript, recorders, mediaRecorderRef, analysis, untouched >>

\* onstop of recorder i (page.tsx 142-148)
PageOnStop ==
    /\ flow = "page"
    /\ \E i \in RecorderIds :
          /\ recorders[i] = "stopping"
          /\ recorders' = [recorders EXCEPT ![i] = "inactive"]
          /\ page' = [page EXCEPT !.audioUrl = RecordedBlob(i, "audio/wav"),
                                  !.audioBlob = RecordedBlob(i, "audio/wav")]
    /\ notice' = "none"
    /\ sent' = NoRequest
    /\ UNCHANGED << flow, report, client, recognition, recError, final_transcript,
                    mediaRecorderRef, gumPending, analysis,
                    untouched >>

(***************************************************************************)
(* Older page flow: upload and tab switch (page.tsx 169-187, 426-433).     *)
(***************************************************************************)
\* the file picker opens from the drop zone or from the Select button
PageFilePickerEnabled ==
    /\ page.inputMode = "upload"
    /\ \/ ~(page.audioFile # Null /\ page.audioUrl # Null)
       \/ ~(page.isAnalyzing \/ page.isLiveRecording \/ page.isAudioRecording)

handleFileSelect ==
    /\ flow = "page"
    /\ PageFilePickerEnabled
    /\ \E file \in Files :
          IF IsAudioType(file)
          THEN /\ page' = [page EXCEPT !.audioFile = file, !.audioUrl = file,
                                       !.audioBlob = Null, !.transcript = Empty,
                                       !.analysisResult = 0]
               /\ notice' = "none"
               /\ sent' = NoRequest
          ELSE /\ notice' = "Invalid File Type"
               /\ sent' = NoRequest
               /\ UNCHANGED page
    /\ untouched' = FALSE
    /\ UNCHANGED << flow, report, client, browser, analysis >>

resetStateForMode ==
    /\ flow = "page"
    /\ \E m \in InputModes \ { page.inputMode } :
          page' = [page EXCEPT !.inputMode = m, !.audioUrl = Null,
                               !.audioBlob = Null, !.audioFile = Null,
                               !.transcript = Empty, !.analysisResult = 0]
    /\ untouched' = TRUE
    /\ notice' = "none"
    /\ sent' = NoRequest
    /\ UNCHANGED << flow, report, client, browser, analysis >>

(***************************************************************************)
(* Newer client component: live transcription (client 139-195).            *)
(***************************************************************************)
ClientOnResult ==
    /\ flow = "client"
    /\ recognition \in { "running", "stopping" }
    /\ \E e \in ResultEvents :
          /\ Len(final_transcript \o e.final \o e.interim) <= MaxTranscript
          /\ final_transcript' = final_transcript \o e.final
          /\ client' = [client EXCEPT !.transcript =
                                          final_transcript \o e.final \o e.interim]
    /\ notice' = "none"
    /\ sent' = NoRequest
    /\ UNCHANGED << flow, report, page, recognition, recError, recorders,
                    mediaRecorderRef, gumPending, analysis,
                    untouched >>

ClientOnEnd ==
    /\ flow = "client"
    /\ recognition = "stopping"
    /\ recError = "none"
    /\ recognition' = "idle"
    /\ client' = [client EXCEPT !.isListening = FALSE]
    /\ notice' = "none"
    /\ sent' = NoRequest
    /\ UNCHANGED << flow, report, page, recError, final_transcript, recorders,
                    mediaRecorderRef, gumPending, analysis,
                    untouched >>

ClientOnError ==
    /\ flow = "client"
    /\ recError # "none"
    /\ recError' = "none"
    /\ client' = [client EXCEPT !.isListening = FALSE]
    /\ notice' = "Speech Recognition Error"
    /\ sent' = NoRequest
    /\ UNCHANGED << flow, report, page, recognition, final_transcript, recorders,
                    mediaRecorderRef, gumPending, analysis,
                    untouched >>

\* the Start/Stop button is on the live tab and enabled where the browser
\* supports recognition (client 396)
handleToggleListening ==
    /\ flow = "client"
    /\ client.currentTab = "live"
    /\ client.isSpeechRecognitionSupported
    /\ IF client.isListening
       THEN /\ recognition' = RecognitionStop(recognition)
            /\ client' = [client EXCEPT !.isListening = FALSE]
       ELSE \* start() throws when the previous session has not ended yet
            /\ recognition' = IF recognition = "idle" THEN "running" ELSE recognition
            /\ client' = [client EXCEPT !.transcript = Empty,
                                        !.isListening = (recognition = "idle")]
    /\ untouched' = FALSE
    /\ notice' = "none"
    /\ sent' = NoRequest
    /\ UNCHANGED << flow, report, page, recError, final_transcript, recorders,
                    mediaRecorderRef, gumPending, analysis >>

\* typing into the transcript Textarea (client 388-394)
ClientTypeTranscript ==
    /\ flow = "client"
    /\ client.currentTab = "live"
    /\ ~client.isListening
    /\ \E t \in TypedTexts : client' = [client EXCEPT !.transcript = t]
    /\ untouched' = FALSE
    /\ notice' = "none"
    /\ sent' = NoRequest
    /\ UNCHANGED << flow, report, page, browser, analysis >>

(***************************************************************************)
(* Newer client component: recording, upload, clear and tab switch         *)
(* (client 197-275, 347).                                                  *)
(***************************************************************************)
\* stopRecording (client 227-232) as it changes the recorders
StopRecordingRecorders ==
    IF mediaRecorderRef # 0
    THEN StopRecorder(recorders, mediaRecorderRef)
    ELSE recorders

\* clearAudio (client 264-275) as it changes the component state
ClearAudioState(c) ==
    [c EXCEPT !.audioBlob = Null,
              !.audioURL = Null,
              !.isRecording = IF @ /\ mediaRecorderRef # 0 THEN FALSE ELSE @]

\* clearAudio (client 264-275) as it changes the recorders
ClearAudioRecorders ==
    IF client.isRecording THEN StopRecordingRecorders ELSE recorders

\* the toggle button of the record tab is rendered while there is no audioURL
handleToggleRecording ==
    /\ flow = "client"
    /\ client.currentTab = "record"
    /\ client.audioURL = Null
    /\ IF client.isRecording
       THEN /\ recorders' = StopRecordingRecorders
            /\ client' = [client EXCEPT !.isRecording =
                                            IF mediaRecorderRef # 0 THEN FALSE ELSE @]
            /\ UNCHANGED gumPending
       ELSE /\ Cardinality(Created) + gumPending < MaxRecorders
            /\ client' = ClearAudioState(client)
            /\ recorders' = ClearAudioRecorders
            /\ gumPending' = gumPending + 1
    /\ untouched' = FALSE
    /\ notice' = "none"
    /\ sent' = NoRequest
    /\ UNCHANGED << flow, report, page, recognition, recError, final_transcript,
                    mediaRecorderRef, analysis >>

\* getUserMedia resolved: the rest of the try block (client 200-216)
ClientMicGranted ==
    /\ flow = "client"
    /\ gumPending > 0
    /\ gumPending' = gumPending - 1
    /\ mediaRecorderRef' = NewRecorder
    /\ recorders' = [recorders EXCEPT ![NewRecorder] = "recording"]
    /\ client' = [client EXCEPT !.isRecording = TRUE]
    /\ notice' = "none"
    /\ sent' = NoRequest
    /\ UNCHANGED << flow, report, page, recognition, recError, final_transcript,
                    analysis, untouched >>

\* getUserMedia rejected: the catch block (client 217-224)
ClientMicDenied ==
    /\ flow = "client"
    /\ gumPending > 0
    /\ gumPending' = gumPending - 1
    /\ notice' = "Microphone Error"
    /\ sent' = NoRequest
    /\ UNCHANGED << flow, report, page, client, recognition, recError,
                    final_transcript, recorders, mediaRecorderRef, analysis, untouched >>

\* the variant of onstop that sets the blob and leaves the URL
ClientOnStopBlobOnly ==
    /\ flow = "client"
    /\ \E i \in RecorderIds :
          /\ recorders[i] = "stopping"
          /\ recorders' = [recorders EXCEPT ![i] = "inactive"]
          /\ client' = [client EXCEPT !.audioBlob = RecordedBlob(i, "audio/webm")]
    /\ notice' = "none"
    /\ sent' = NoRequest
    /\ UNCHANGED << flow, report, page, recognition, recError, final_transcript,
                    mediaRecorderRef, gumPending, analysis,
                    untouched >>

\* onstop of recorder i (client 207-213)
ClientOnStop ==
    /\ flow = "client"
    /\ \E i \in RecorderIds :
          /\ recorders[i] = "stopping"
          /\ recorders' = [recorders EXCEPT ![i] = "inactive"]
          /\ client' = [client EXCEPT !.audioBlob = RecordedBlob(i, "audio/webm"),
                                      !.audioURL = RecordedBlob(i, "audio/webm")]
    /\ notice' = "none"
    /\ sent' = NoRequest
    /\ UNCHANGED << flow, report, page, recognition, recError, final_transcript,
                    mediaRecorderRef, gumPending, analysis,
                    untouched >>

\* the file input of the upload tab is rendered while there is no audioURL
handleFileChange ==
    /\ flow = "client"
    /\ client.currentTab = "upload"
    /\ client.audioURL = Null
    /\ \E file \in Files :
          client' = [ClearAudioState(client) EXCEPT !.audioBlob = file,
                                                    !.audioURL = file,
                                                    !.currentTab = "upload"]
    /\ recorders' = ClearAudioRecorders
    /\ untouched' = FALSE
    /\ notice' = "none"
    /\ sent' = NoRequest
    /\ UNCHANGED << flow, report, page, recognition, recError, final_transcript,
                    mediaRecorderRef, gumPending, analysis >>

\* the Clear buttons of the record and upload tabs (client 420, 448)
clearAudio ==
    /\ flow = "client"
    /\ client.currentTab \in { "record", "upload" }
    /\ client.audioURL # Null
    /\ client' = ClearAudioState(client)
    /\ recorders' = ClearAudioRecorders
    /\ notice' = "none"
    /\ sent' = NoRequest
    /\ UNCHANGED << flow, report, page, recognition, recError, final_transcript,
                    mediaRecorderRef, gumPending, analysis, untouched >>

\* Tabs.onValueChange (client 347)
ClientTabChange ==
    /\ flow = "client"
    /\ \E v \in ClientTabs \ { client.currentTab } :
          client' = [ClearAudioState(client) EXCEPT !.transcript = Empty,
                                                    !.currentTab = v]
    /\ recorders' = ClearAudioRecorders
    /\ untouched' = TRUE
    /\ notice' = "none"
    /\ sent' = NoRequest
    /\ UNCHANGED << flow, report, page, recognition, recError, final_transcript,
                    mediaRecorderRef, gumPending, analysis >>

(***************************************************************************)
(* Capture alone: the user never presses Analyze.                          *)
(***************************************************************************)
CaptureNext ==
    \/ RaiseRecognitionError
    \/ PageOnResult
    \/ PageOnError
    \/ PageOnEnd
    \/ handleToggleLiveRecording
    \/ PageTypeTranscript
    \/ handleToggleAudioRecording
    \/ PageMicGranted
    \/ PageMicDenied
    \/ PageOnStop
    \/ handleFileSelect
    \/ resetStateForMode
    \/ ClientOnResult
    \/ ClientOnEnd
    \/ ClientOnError
    \/ handleToggleListening
    \/ ClientTypeTranscript
    \/ handleToggleRecording
    \/ ClientMicGranted
    \/ ClientMicDenied
    \/ ClientOnStop
    \/ handleFileChange
    \/ clearAudio
    \/ ClientTabChange

SpecCapture == InitCapture /\ [][CaptureNext]_vars

(***************************************************************************)
(* Analysis context: mode, question and perfect answer                     *)
(* (page.tsx 568-632, client 471-523).  The question field is rendered in  *)
(* the interview and practice modes, the perfect answer in practice mode.  *)
(***************************************************************************)
PageSetContext ==
    /\ flow = "page"
    /\ \/ \E m \in AnalysisModes \ { page.analysisMode } :
             page' = [page EXCEPT !.analysisMode = m]
       \/ /\ page.analysisMode \in { "interview", "practice" }
          /\ \E q \in QuestionTexts \ { page.question } :
                page' = [page EXCEPT !.question = q]
       \/ /\ page.analysisMode = "practice"
          /\ \E a \in AnswerTexts \ { page.perfectAnswer } :
                page' = [page EXCEPT !.perfectAnswer = a]
    /\ notice' = "none"
    /\ sent' = NoRequest
    /\ UNCHANGED << flow, report, client, browser, analysis, untouched >>

ClientSetContext ==
    /\ flow = "client"
    /\ \/ \E m \in ClientModes \ { client.mode } :
             client' = [client EXCEPT !.mode = m]
       \/ /\ client.mode \in { "Interview Mode", "Practice Mode" }
          /\ \E q \in QuestionTexts \ { client.question } :
                client' = [client EXCEPT !.question = q]
       \/ /\ client.mode = "Practice Mode"
          /\ \E a \in AnswerTexts \ { client.perfectAnswer } :
                client' = [client EXCEPT !.perfectAnswer = a]
    /\ notice' = "none"
    /\ sent' = NoRequest
    /\ UNCHANGED << flow, report, page, browser, analysis, untouched >>

(***************************************************************************)
(* The request.  An absent (undefined) text field is Undefined; the data   *)
(* URI FileReader.readAsDataURL builds from a blob starts with "data:".    *)
(***************************************************************************)
Undefined == << "<undefined>" >>

DataUri(blob) == << "data:", blob.type, ";base64,", blob.src, ToString(blob.id) >>

\* String.prototype.startsWith('data:') (analyze-speech.ts 247)
StartsWithData(s) == s # << >> /\ Head(s) = "data:"

(***************************************************************************)
(* Older page flow: handleAnalyze (page.tsx 189-265).                      *)
(***************************************************************************)
\* the variant of the context checks that never looks at the perfect answer
PageValidateContextNoAnswer(p) ==
    IF p.analysisMode = "interview" /\ ~Truthy(Trim(p.question))
    THEN "Question is empty."
    ELSE IF p.analysisMode = "practice" /\ ~Truthy(Trim(p.question))
    THEN "Question is empty."
    ELSE "ok"

\* the checks on the analysis context (page.tsx 190-203)
PageValidateContext(p) ==
    IF p.analysisMode = "interview" /\ ~Truthy(Trim(p.question))
    THEN "Question is empty."
    ELSE IF p.analysisMode = "practice" /\ ~Truthy(Trim(p.question))
    THEN "Question is empty."
    ELSE IF p.analysisMode = "practice" /\ ~Truthy(Trim(p.perfectAnswer))
    THEN "Perfect Answer is empty."
    ELSE "ok"

\* the variant of the sample checks that reports a missing recording with
\* the words of a missing transcript
PageValidateSampleOneMessage(p) ==
    IF p.inputMode = "live"
    THEN IF ~Truthy(Trim(p.transcript)) THEN "Your speech is empty." ELSE "ok"
    ELSE IF p.inputMode = "audio"
    THEN IF p.audioBlob = Null THEN "Your speech is empty." ELSE "ok"
    ELSE IF p.audioFile = Null THEN "No file selected." ELSE "ok"

\* the checks on the speech sample (page.tsx 211-230)
PageValidateSample(p) ==
    IF p.inputMode = "live"
    THEN IF ~Truthy(Trim(p.transcript)) THEN "Your speech is empty." ELSE "ok"
    ELSE IF p.inputMode = "audio"
    THEN IF p.audioBlob = Null THEN "No audio recorded." ELSE "ok"
    ELSE IF p.audioFile = Null THEN "No file selected." ELSE "ok"

PageValidate(p) ==
    IF PageValidateContext(p) # "ok"
    THEN PageValidateContext(p)
    ELSE PageValidateSample(p)

\* the variant of inputData that copies the transcript in every input mode
PageInputDataAlwaysText(p) ==
    [ mode |-> p.analysisMode,
      question |-> IF p.analysisMode \in { "interview", "practice" }
                   THEN p.question ELSE Undefined,
      perfectAnswer |-> IF p.analysisMode = "practice"
                        THEN p.perfectAnswer ELSE Undefined,
      transcription |-> p.transcript,
      audioDataUri |-> Undefined ]

\* inputData before the audio is read (page.tsx 205-217)
PageInputData(p) ==
    [ mode |-> p.analysisMode,
      question |-> IF p.analysisMode \in { "interview", "practice" }
                   THEN p.question ELSE Undefined,
      perfectAnswer |-> IF p.analysisMode = "practice"
                        THEN p.perfectAnswer ELSE Undefined,
      transcription |-> IF p.inputMode = "live" THEN p.transcript ELSE Undefined,
      audioDataUri |-> Undefined ]

\* audioSource (page.tsx 211-230)
PageAudioSource(p) ==
    IF p.inputMode = "audio" THEN p.audioBlob
    ELSE IF p.inputMode = "upload" THEN p.audioFile
    ELSE Null

PageAnalyzeButtonEnabled ==
    ~(page.isAnalyzing \/ page.isLiveRecording \/ page.isAudioRecording)

\* the variant of a rejected click that also clears the displayed result
PageAnalyzeRejectedClears ==
    /\ flow = "page"
    /\ PageAnalyzeButtonEnabled
    /\ PageValidate(page) # "ok"
    /\ notice' = PageValidate(page)
    /\ sent' = NoRequest
    /\ page' = [page EXCEPT !.analysisResult = 0]
    /\ UNCHANGED << flow, report, client, browser, analysis, untouched >>

\* a click that fails validation (page.tsx 190-230)
PageAnalyzeRejected ==
    /\ flow = "page"
    /\ PageAnalyzeButtonEnabled
    /\ PageValidate(page) # "ok"
    /\ notice' = PageValidate(page)
    /\ sent' = NoRequest
    /\ UNCHANGED << flow, report, page, client, browser, analysis, untouched >>

\* the requests in flight once another one is started: newest marks the
\* request started last
Older(cs) == { [c EXCEPT !.newest = FALSE] : c \in cs }

\* a click on the live tab that passes validation (page.tsx 189-249)
PageAnalyzeText ==
    /\ flow = "page"
    /\ PageAnalyzeButtonEnabled
    /\ PageValidate(page) = "ok"
    /\ PageAudioSource(page) = Null
    /\ nextId < maxClicks
    /\ nextId' = nextId + 1
    /\ calls' = Older(calls) \cup
                   { [ id |-> nextId + 1,
                       transcriptAtClick |-> Truthy(page.transcript),
                       reply |-> "pending", newest |-> TRUE ] }
    /\ sent' = PageInputData(page)
    /\ page' = [page EXCEPT !.isAnalyzing = TRUE, !.analysisResult = 0]
    /\ notice' = "none"
    /\ UNCHANGED << flow, report, client, browser, readers, maxClicks, untouched >>

\* a click on an audio tab that passes validation: up to the await (189-242)
PageAnalyzeAudio ==
    /\ flow = "page"
    /\ PageAnalyzeButtonEnabled
    /\ PageValidate(page) = "ok"
    /\ PageAudioSource(page) # Null
    /\ nextId < maxClicks
    /\ nextId' = nextId + 1
    /\ readers' = readers \cup { [ id |-> nextId + 1,
                                   input |-> PageInputData(page),
                                   source |-> PageAudioSource(page),
                                   transcriptAtClick |-> Truthy(page.transcript) ] }
    /\ notice' = "none"
    /\ sent' = NoRequest
    /\ UNCHANGED << flow, report, page, client, browser, calls, maxClicks, untouched >>

\* reader.onloadend: the rest of handleAnalyze up to the call (236-249)
PageReaderLoaded ==
    /\ flow = "page"
    /\ \E r \in readers :
          /\ readers' = readers \ { r }
          /\ calls' = Older(calls) \cup
                { [ id |-> r.id,
                    transcriptAtClick |-> r.transcriptAtClick,
                    reply |-> "pending", newest |-> TRUE ] }
          /\ sent' = [r.input EXCEPT !.audioDataUri = DataUri(r.source)]
    /\ page' = [page EXCEPT !.isAnalyzing = TRUE, !.analysisResult = 0]
    /\ notice' = "none"
    /\ UNCHANGED << flow, report, client, browser, nextId, maxClicks, untouched >>

\* the FileReader fails: the promise rejects and handleAnalyze ends there
\* (page.tsx 240, client 281)
ReaderError ==
    /\ \E r \in readers : readers' = readers \ { r }
    /\ notice' = "none"
    /\ sent' = NoRequest
    /\ UNCHANGED << flow, report, page, client, browser, calls, nextId, maxClicks,
                    untouched >>

(***************************************************************************)
(* The server flows (analyze.ts 76-108, analyze-speech.ts 258-272): the    *)
(* model call throws (network error, output failing the schema), returns   *)
(* no output, or returns an output, with or without a transcription.       *)
(***************************************************************************)
ModelOutcomes == { "network-error", "schema-invalid", "no-output",
                   "output", "output+transcription" }

\* analysisFlow without the check of analyze.ts 103-106
analysisFlowUnchecked(outcome) ==
    IF outcome \in { "network-error", "schema-invalid" } THEN "error"
    ELSE outcome

\* analysisFlow (analyze.ts 76-108): what analyze hands back to the page
analysisFlow(outcome) ==
    IF outcome \in { "network-error", "schema-invalid" } THEN "error"
    ELSE IF outcome = "no-output" THEN "error"
    ELSE outcome

\* analyzeSpeechFlow (analyze-speech.ts 258-272): what analyzeSpeech hands
\* back to the client, whose output schema has no transcription field
analyzeSpeechFlow(outcome) ==
    IF outcome \in { "network-error", "schema-invalid" } THEN "error"
    ELSE IF outcome = "no-output" THEN "error"
    ELSE "output"

FlowResponds ==
    /\ \E c \in calls :
          /\ c.reply = "pending"
          /\ \E outcome \in ModelOutcomes :
                calls' = (calls \ { c }) \cup
                   { [c EXCEPT !.reply = IF flow = "page"
                                         THEN analysisFlow(outcome)
                                         ELSE analyzeSpeechFlow(outcome)] }
    /\ notice' = "none"
    /\ sent' = NoRequest
    /\ UNCHANGED << flow, report, page, client, browser, readers, nextId, maxClicks,
                    untouched >>

\* the transcription a result carries
ResultTranscription == << "said" >>

\* a catch block that issues the failed request once more
PageAnalyzeSettledRetry ==
    /\ flow = "page"
    /\ \E c \in calls :
          /\ c.reply # "pending"
          /\ IF c.reply = "error"
             THEN /\ calls' = (calls \ { c }) \cup { [c EXCEPT !.reply = "pending"] }
                  /\ notice' = "Analysis Failed"
                  /\ sent' = NoRequest
                  /\ page' = [page EXCEPT !.analysisResult = 0]
             ELSE /\ calls' = calls \ { c }
                  /\ page' = [page EXCEPT
                        !.analysisResult = c.id,
                        !.transcript =
                            IF c.reply = "output+transcription"
                               /\ ~c.transcriptAtClick
                            THEN ResultTranscription ELSE @,
                        !.isAnalyzing = FALSE]
                  /\ notice' = "none"
                  /\ sent' = NoRequest
    /\ UNCHANGED << flow, report, client, browser, readers, nextId, maxClicks, untouched >>

\* try / catch / finally around analyze (page.tsx 248-264)
PageAnalyzeSettled ==
    /\ flow = "page"
    /\ \E c \in calls :
          /\ c.reply # "pending"
          /\ calls' = calls \ { c }
          /\ IF c.reply = "error"
             THEN /\ notice' = "Analysis Failed"
                  /\ sent' = NoRequest
                  /\ page' = [page EXCEPT !.analysisResult = 0,
                                          !.isAnalyzing = FALSE]
             ELSE /\ page' = [page EXCEPT
                        !.analysisResult = c.id,
                        !.transcript =
                            IF c.reply = "output+transcription"
                               /\ ~c.transcriptAtClick
                            THEN ResultTranscription ELSE @,
                        !.isAnalyzing = FALSE]
                  /\ notice' = "none"
                  /\ sent' = NoRequest
    /\ UNCHANGED << flow, report, client, browser, readers, nextId, maxClicks, untouched >>

(***************************************************************************)
(* Newer client component: handleAnalyze (client 285-330).                 *)
(***************************************************************************)
\* the checks on the speech sample (client 287-299)
ClientValidateSample(c) ==
    IF c.currentTab = "live"
    THEN IF ~Truthy(c.transcript) THEN "No transcription provided." ELSE "ok"
    ELSE IF c.audioBlob = Null THEN "No audio provided." ELSE "ok"

\* the checks on the analysis context (client 301-308)
ClientValidateContext(mode, question, perfectAnswer) ==
    IF mode = "Interview Mode" /\ ~Truthy(question)
    THEN "Please enter an interview question."
    ELSE IF mode = "Practice Mode" /\ (~Truthy(question) \/ ~Truthy(perfectAnswer))
    THEN "Please enter both question and perfect answer."
    ELSE "ok"

\* the AnalyzeSpeechInput built from the values of the render that was
\* clicked (client 314-316)
ClientInput(speechSample, mode, question, perfectAnswer) ==
    [ speechSample |-> speechSample,
      mode |-> mode,
      question |-> IF Truthy(question) THEN question ELSE Undefined,
      perfectAnswer |-> IF Truthy(perfectAnswer) /\ mode = "Practice Mode"
                        THEN perfectAnswer ELSE Undefined ]

ClientAnalyzeButtonEnabled == ~client.isLoading

\* a click rejected before any await (client 287-308)
ClientAnalyzeRejected ==
    /\ flow = "client"
    /\ ClientAnalyzeButtonEnabled
    /\ \/ /\ ClientValidateSample(client) # "ok"
          /\ notice' = ClientValidateSample(client)
          /\ sent' = NoRequest
       \/ /\ ClientValidateSample(client) = "ok"
          /\ client.currentTab = "live"
          /\ ClientValidateContext(client.mode, client.question,
                                   client.perfectAnswer) # "ok"
          /\ notice' = ClientValidateContext(client.mode, client.question,
                                             client.perfectAnswer)
          /\ sent' = NoRequest
    /\ UNCHANGED << flow, report, page, client, browser, analysis, untouched >>

\* a click on the live tab that passes validation (client 285-318)
ClientAnalyzeText ==
    /\ flow = "client"
    /\ ClientAnalyzeButtonEnabled
    /\ client.currentTab = "live"
    /\ ClientValidateSample(client) = "ok"
    /\ ClientValidateContext(client.mode, client.question,
                             client.perfectAnswer) = "ok"
    /\ nextId < maxClicks
    /\ nextId' = nextId + 1
    /\ calls' = Older(calls) \cup
                   { [ id |-> nextId + 1, reply |-> "pending",
                       newest |-> TRUE ] }
    /\ sent' = ClientInput(client.transcript, client.mode, client.question,
                           client.perfectAnswer)
    /\ client' = [client EXCEPT !.isLoading = TRUE, !.analysisResult = 0]
    /\ notice' = "none"
    /\ UNCHANGED << flow, report, page, browser, readers, maxClicks, untouched >>

\* a click on an audio tab with a blob: up to the await (client 293-298).
\* The continuation reads mode, question and perfectAnswer of the render
\* that was clicked, so what it will decide and send is fixed here.
ClientAnalyzeAudio ==
    /\ flow = "client"
    /\ ClientAnalyzeButtonEnabled
    /\ client.currentTab # "live"
    /\ ClientValidateSample(client) = "ok"
    /\ nextId < maxClicks
    /\ nextId' = nextId + 1
    /\ LET verdict == ClientValidateContext(client.mode, client.question,
                                            client.perfectAnswer)
       IN readers' = readers \cup
             { [ id |-> nextId + 1,
                 verdict |-> verdict,
                 input |-> IF verdict = "ok"
                           THEN ClientInput(DataUri(client.audioBlob), client.mode,
                                            client.question, client.perfectAnswer)
                           ELSE ClientInput(Empty, "Presentation Mode",
                                            Empty, Empty),
                 source |-> client.audioBlob ] }
    /\ notice' = "none"
    /\ sent' = NoRequest
    /\ UNCHANGED << flow, report, page, client, browser, calls, maxClicks, untouched >>

\* fileToDataUri resolved: the rest of handleAnalyze up to the call
\* (client 298-318)
ClientReaderLoaded ==
    /\ flow = "client"
    /\ \E r \in readers :
          /\ readers' = readers \ { r }
          /\ IF r.verdict # "ok"
             THEN /\ notice' = r.verdict
                  /\ sent' = NoRequest
                  /\ UNCHANGED << calls, client >>
             ELSE /\ calls' = Older(calls) \cup
                            { [ id |-> r.id, reply |-> "pending",
                                newest |-> TRUE ] }
                  /\ sent' = r.input
                  /\ client' = [client EXCEPT !.isLoading = TRUE,
                                              !.analysisResult = 0]
                  /\ notice' = "none"
    /\ UNCHANGED << flow, report, page, browser, nextId, maxClicks, untouched >>

\* the variant without the finally block: a failed call leaves isLoading set
ClientAnalyzeSettledNoFinally ==
    /\ flow = "client"
    /\ \E c \in calls :
          /\ c.reply # "pending"
          /\ calls' = calls \ { c }
          /\ IF c.reply = "error"
             THEN /\ notice' = "Analysis Failed"
                  /\ sent' = NoRequest
                  /\ UNCHANGED client
             ELSE /\ client' = [client EXCEPT !.analysisResult = c.id,
                                              !.isLoading = FALSE]
                  /\ notice' = "none"
                  /\ sent' = NoRequest
    /\ UNCHANGED << flow, report, page, browser, readers, nextId, maxClicks, untouched >>

\* try / catch / finally around analyzeSpeech (client 313-329)
ClientAnalyzeSettled ==
    /\ flow = "client"
    /\ \E c \in calls :
          /\ c.reply # "pending"
          /\ calls' = calls \ { c }
          /\ IF c.reply = "error"
             THEN /\ notice' = "Analysis Failed"
                  /\ sent' = NoRequest
                  /\ client' = [client EXCEPT !.isLoading = FALSE]
             ELSE /\ client' = [client EXCEPT !.analysisResult = c.id,
                                              !.isLoading = FALSE]
                  /\ notice' = "none"
                  /\ sent' = NoRequest
    /\ UNCHANGED << flow, report, page, browser, readers, nextId, maxClicks, untouched >>

(***************************************************************************)
(* Validation: the user provides a sample by typing or uploading, or has   *)
(* recorded one, edits the analysis context and presses Analyze.           *)
(***************************************************************************)
ValidateNext ==
    \/ PageTypeTranscript
    \/ handleFileSelect
    \/ resetStateForMode
    \/ PageSetContext
    \/ PageAnalyzeRejected
    \/ PageAnalyzeText
    \/ PageAnalyzeAudio
    \/ PageReaderLoaded
    \/ ReaderError
    \/ FlowResponds
    \/ PageAnalyzeSettled
    \/ ClientTypeTranscript
    \/ handleFileChange
    \/ clearAudio
    \/ ClientTabChange
    \/ ClientSetContext
    \/ ClientAnalyzeRejected
    \/ ClientAnalyzeText
    \/ ClientAnalyzeAudio
    \/ ClientReaderLoaded
    \/ ClientAnalyzeSettled

SpecValidate == InitValidate /\ [][ValidateNext]_vars

(***************************************************************************)
(* Pipeline: the user provides a sample by typing or uploading, or has     *)
(* recorded one, and presses Analyze in the mode the component starts in.  *)
(***************************************************************************)
PipelineNext ==
    \/ PageTypeTranscript
    \/ handleFileSelect
    \/ resetStateForMode
    \/ PageAnalyzeRejected
    \/ PageAnalyzeText
    \/ PageAnalyzeAudio
    \/ PageReaderLoaded
    \/ ReaderError
    \/ FlowResponds
    \/ PageAnalyzeSettled
    \/ ClientTypeTranscript
    \/ handleFileChange
    \/ clearAudio
    \/ ClientTabChange
    \/ ClientAnalyzeRejected
    \/ ClientAnalyzeText
    \/ ClientAnalyzeAudio
    \/ ClientReaderLoaded
    \/ ClientAnalyzeSettled

SpecPipeline == InitPipeline /\ [][PipelineNext]_vars

(***************************************************************************)
(* Observations the properties share.                                      *)
(***************************************************************************)
\* isAnalyzing (page.tsx 44) / isLoading (client 127)
PendingFlag == IF flow = "page" THEN page.isAnalyzing ELSE client.isLoading

\* isLiveRecording (page.tsx 42) / isListening (client 122)
ListeningFlag == IF flow = "page" THEN page.isLiveRecording ELSE client.isListening

Transcript == IF flow = "page" THEN page.transcript ELSE client.transcript

AnalysisResult ==
    IF flow = "page" THEN page.analysisResult ELSE client.analysisResult

\* no audio blob, audio URL or audio file is held
NoAudioHeld ==
    IF flow = "page"
    THEN page.audioUrl = Null /\ page.audioBlob = Null /\ page.audioFile = Null
    ELSE client.audioURL = Null /\ client.audioBlob = Null

\* the handleAnalyze invocations that have called the inference function
Invoked(cs) == { c.id : c \in cs }

\* the calls the inference function has not answered yet
Outstanding == { c \in calls : c.reply = "pending" }

\* a request carries the fields its mode requires
HasRequiredFields(req) ==
    /\ req.mode \in { "interview", "practice", "Interview Mode", "Practice Mode" }
          => req.question \notin { Empty, Undefined }
    /\ req.mode \in { "practice", "Practice Mode" }
          => req.perfectAnswer \notin { Empty, Undefined }


(***************************************************************************)
(* C1.  An Analyze action without the fields its mode requires is          *)
(* rejected before any inference call.  Every step that invokes the        *)
(* inference function or raises the pending flag passes a request that     *)
(* carries the question (interview, practice) and the perfect answer       *)
(* (practice) of the action; and a step that reports a missing question    *)
(* or perfect answer invokes nothing and leaves the pending flag alone.    *)
(***************************************************************************)
C1_RejectedBeforeInference ==
    [][ /\ (~(Invoked(calls') \subseteq Invoked(calls))
               \/ (~PendingFlag /\ PendingFlag'))
           => (sent' # NoRequest /\ HasRequiredFields(sent'))
        /\ notice' \in { "Question is empty.", "Perfect Answer is empty.",
                          "Please enter an interview question.",
                          "Please enter both question and perfect answer." }
           => /\ Invoked(calls') = Invoked(calls)
              /\ sent' = NoRequest
              /\ PendingFlag' = PendingFlag ]_vars

\* an Analyze click in practice mode lacking a required field was rejected
\* after the audio had been read, with nothing pending and nothing called
C1_Witness ==
    /\ flow = "client"
    /\ client.currentTab # "live"
    /\ client.audioBlob # Null
    /\ notice = "Please enter both question and perfect answer."
    /\ ~client.isLoading
    /\ calls = {}

(***************************************************************************)
(* C2.  After a tab switch, and until the user supplies input again, the   *)
(* transcript is empty and no audio blob, URL or file is held.             *)
(***************************************************************************)
C2_TabSwitchClears == untouched => (Transcript = Empty /\ NoAudioHeld)

(***************************************************************************)
(* C3.  In the page flow isLiveRecording and isAudioRecording are never    *)
(* both true.                                                              *)
(***************************************************************************)
C3_PageOnePathActive ==
    flow = "page" => ~(page.isLiveRecording /\ page.isAudioRecording)

(***************************************************************************)
(* C4.  In the client component isListening and isRecording are never      *)
(* both true.                                                              *)
(***************************************************************************)
C4_ClientOnePathActive ==
    flow = "client" => ~(client.isListening /\ client.isRecording)

(***************************************************************************)
(* C5.  At most one inference request is outstanding at any time.          *)
(***************************************************************************)
C5_OneOutstanding == Cardinality(Outstanding) <= 1

(***************************************************************************)
(* C6.  When the failure of an inference call is handled, a failure        *)
(* notice is raised and analysisResult is null; analysisResult leaves      *)
(* null only when an analysis succeeds, and then shows that analysis.      *)
(***************************************************************************)
C6_FailureLeavesNoResult ==
    [][ /\ \A c \in calls :
              (c.reply = "error" /\ c \notin calls')
                 => (notice' = "Analysis Failed" /\ AnalysisResult' = 0)
        /\ (AnalysisResult = 0 /\ AnalysisResult' # 0)
              => \E c \in calls :
                    /\ c.reply \in { "output", "output+transcription" }
                    /\ c \notin calls'
                    /\ AnalysisResult' = c.id ]_vars

(***************************************************************************)
(* The four validation failures, and the message either handleAnalyze      *)
(* gives on an input that has exactly one of them.  The inputs range over  *)
(* every value the checks read; a text is either empty or visible.         *)
(***************************************************************************)
FailureKinds == { "transcript", "audio", "question", "answer" }

Visible(S) == { t \in S : Trim(t) = t }

PageCases ==
    [ analysisMode : AnalysisModes, inputMode : InputModes,
      question : Visible(QuestionTexts), perfectAnswer : Visible(AnswerTexts),
      transcript : Visible(TypedTexts),
      audioBlob : { Null, RecordedBlob(1, "audio/wav") },
      audioFile : { Null } \cup { f \in Files : IsAudioType(f) } ]

PageFailures(p) ==
    { k \in FailureKinds :
        \/ k = "transcript" /\ p.inputMode = "live" /\ p.transcript = Empty
        \/ k = "audio" /\ p.inputMode # "live" /\ PageAudioSource(p) = Null
        \/ k = "question" /\ p.analysisMode \in { "interview", "practice" }
                          /\ p.question = Empty
        \/ k = "answer" /\ p.analysisMode = "practice" /\ p.perfectAnswer = Empty }

ClientCases ==
    [ mode : ClientModes, currentTab : ClientTabs,
      question : Visible(QuestionTexts), perfectAnswer : Visible(AnswerTexts),
      transcript : Visible(TypedTexts),
      audioBlob : { Null, RecordedBlob(1, "audio/webm") } ]

ClientFailures(c) ==
    { k \in FailureKinds :
        \/ k = "transcript" /\ c.currentTab = "live" /\ c.transcript = Empty
        \/ k = "audio" /\ c.currentTab # "live" /\ c.audioBlob = Null
        \/ k = "question" /\ c.mode \in { "Interview Mode", "Practice Mode" }
                          /\ c.question = Empty
        \/ k = "answer" /\ c.mode = "Practice Mode" /\ c.perfectAnswer = Empty }

\* the checks of the client's handleAnalyze in the order it makes them
\* (client 287-308)
ClientValidate(c) ==
    IF ClientValidateSample(c) # "ok"
    THEN ClientValidateSample(c)
    ELSE ClientValidateContext(c.mode, c.question, c.perfectAnswer)

\* the messages the page gives for each failure when it is the only one
PageMessages ==
    [ k \in FailureKinds |->
        { PageValidate(p) : p \in { x \in PageCases : PageFailures(x) = { k } } } ]

\* the messages the client gives for each failure when it is the only one
ClientMessages ==
    [ k \in FailureKinds |->
        { ClientValidate(c) : c \in { x \in ClientCases : ClientFailures(x) = { k } } } ]

\* the messages of the mounted component
MessagesOf(k) == IF flow = "page" THEN PageMessages[k] ELSE ClientMessages[k]

\* the failures a message is given for
KindsOf(m) == { k \in FailureKinds : m \in MessagesOf(k) }

ValidationNotices == UNION { MessagesOf(k) : k \in FailureKinds }

SharedPracticeNotice == "Please enter both question and perfect answer."

(***************************************************************************)
(* C7 as stated.  Every validation notice is the message of exactly one    *)
(* of the four failures, in both flows.                                    *)
(***************************************************************************)
C7_DistinctMessages ==
    notice \in ValidationNotices => Cardinality(KindsOf(notice)) = 1

(***************************************************************************)
(* C7 as the code has it.  In the page flow every validation notice is     *)
(* the message of exactly one failure.  In the client the same holds       *)
(* except in practice mode, where a missing question and a missing         *)
(* perfect answer share one message.                                       *)
(***************************************************************************)
C7_DistinctExceptPractice ==
    notice \in ValidationNotices =>
        IF flow = "client" /\ notice = SharedPracticeNotice
        THEN KindsOf(notice) = { "question", "answer" }
        ELSE Cardinality(KindsOf(notice)) = 1

\* the client has just rejected a click with the shared practice message
C7_Witness ==
    /\ flow = "client"
    /\ client.mode = "Practice Mode"
    /\ notice = SharedPracticeNotice
    /\ sent = NoRequest

(***************************************************************************)
(* C8.  Every request the page passes to analyze carries exactly one of    *)
(* transcription and audioDataUri, a non-empty question in interview and   *)
(* practice mode, and a non-empty perfect answer in practice mode.         *)
(***************************************************************************)
C8_RequestWellFormed ==
    (flow = "page" /\ sent # NoRequest) =>
        /\ (sent.transcription # Undefined) # (sent.audioDataUri # Undefined)
        /\ sent.transcription # Empty
        /\ sent.audioDataUri # Empty
        /\ sent.mode \in { "interview", "practice" }
              => sent.question \notin { Empty, Undefined }
        /\ sent.mode = "practice"
              => sent.perfectAnswer \notin { Empty, Undefined }

\* the page has just sent a recording for analysis in practice mode
C8_Witness ==
    /\ flow = "page"
    /\ sent # NoRequest
    /\ sent.mode = "practice"
    /\ sent.audioDataUri = DataUri(RecordedBlob(1, "audio/wav"))

(***************************************************************************)
(* C9.  Handling a recoverable recognition error (no-speech, network)      *)
(* raises no notice and leaves the listening flag and the transcript       *)
(* unchanged, in both flows.                                               *)
(***************************************************************************)
C9_RecoverableSwallowed ==
    [][ (recError \in Recoverable /\ recError' = "none")
           => /\ notice' = "none"
              /\ ListeningFlag' = ListeningFlag
              /\ Transcript' = Transcript ]_vars

(***************************************************************************)
(* C10 as stated.  Handling a recognition error other than no-speech and   *)
(* network raises a notice and leaves the listening flag false.            *)
(***************************************************************************)
C10_FatalSurfaces ==
    [][ (recError \in ErrorKinds \ Recoverable /\ recError' = "none")
           => (notice' = "Speech Recognition Error" /\ ~ListeningFlag') ]_vars

(***************************************************************************)
(* C10 as the code has it.  The page flow also returns silently on         *)
(* audio-capture; handling any other error that is not no-speech or        *)
(* network raises a notice and leaves the listening flag false.            *)
(***************************************************************************)
C10_FatalSurfacesButAudioCapture ==
    [][ /\ ( /\ recError \in ErrorKinds \ Recoverable
             /\ recError' = "none"
             /\ ~(flow = "page" /\ recError = "audio-capture") )
           => (notice' = "Speech Recognition Error" /\ ~ListeningFlag')
        /\ (flow = "page" /\ recError = "audio-capture" /\ recError' = "none")
           => (notice' = "none" /\ ListeningFlag' = ListeningFlag) ]_vars

\* the page has just handled a fatal error of a running session
C10_Witness ==
    /\ flow = "page"
    /\ notice = "Speech Recognition Error"
    /\ recognition = "stopping"
    /\ ~page.isLiveRecording

(***************************************************************************)
(* C11.  A file whose type is not audio/* is never stored as the audio to  *)
(* analyse: the file held by the upload tab of either flow is an audio     *)
(* file.                                                                   *)
(***************************************************************************)
C11_OnlyAudioStored ==
    /\ page.audioFile # Null => IsAudioType(page.audioFile)
    /\ client.audioBlob.src = "file" => IsAudioType(client.audioBlob)

\* isAudioRecording (page.tsx 43) / isRecording (client 123)
RecordingFlag ==
    IF flow = "page" THEN page.isAudioRecording ELSE client.isRecording

(***************************************************************************)
(* C12.  Whenever the recording flag is false and no recorder has a stop   *)
(* event pending, no microphone track is live.                             *)
(***************************************************************************)
C12_MicrophoneReleased ==
    (~RecordingFlag /\ \A i \in RecorderIds : recorders[i] # "stopping")
        => \A i \in RecorderIds : recorders[i] \notin { "recording", "stopping" }

(***************************************************************************)
(* The analysis result: from the language model's answer to the value the  *)
(* server flow hands back.  An answer is followed through validation,      *)
(* rendering and PDF export on its own, apart from the capture and         *)
(* orchestration steps above.                                              *)
(***************************************************************************)
MaxSegments == 2       \* highlighted segments in one transcription

\* evaluationCategoryEnum (analyze-speech.ts 35-39); the page's schema has
\* one object per category (schemas.ts 56-58)
Categories == << "Delivery", "Language", "Content" >>

\* evaluationCriteriaEnum (analyze-speech.ts 14-33); the keys of the page's
\* three criteria objects name the same fifteen (schemas.ts 15-37)
Criteria == << "Fluency", "Pacing", "Clarity", "Confidence", "Emotional Tone",
               "Grammar", "Vocabulary", "Word Choice", "Conciseness",
               "Filler Words",
               "Relevance", "Organization", "Accuracy", "Depth",
               "Persuasiveness" >>

\* the category a criterion is listed under in both schemas
CategoryOf(name) ==
    LET i == CHOOSE k \in 1..Len(Criteria) : Criteria[k] = name
    IN  Categories[((i - 1) \div 5) + 1]

\* a text of one word
ShortText == << "w" >>

\* words that fit the width splitTextToSize wraps to (page.tsx 292,
\* pdf.ts 46-49), and a text that wraps to more lines than a page holds
LineWords == 4

LongLines == 45        \* wrapped lines of the longest text field

LongText == [k \in 1..(LineWords * LongLines) |-> "w"]

\* the answer a model gives when it follows the prompt: every criterion
\* once, under its category, in the order of the prompt
CompleteCriteria ==
    [k \in 1..Len(Criteria) |->
        [ category |-> CategoryOf(Criteria[k]), criteria |-> Criteria[k],
          score |-> 7, evaluation |-> ShortText, feedback |-> ShortText ]]

\* the ways an answer departs from the prompt, applied at one criterion
Departures == { "none", "omit", "repeat", "score", "category", "name",
                "long" }

Departed == { 1, 8, 15 }

Depart(kind, k) ==
    LET c == CompleteCriteria
    IN  CASE kind = "omit" -> SubSeq(c, 1, k - 1) \o SubSeq(c, k + 1, Len(c))
          [] kind = "repeat" -> c \o << c[k] >>
          [] kind = "score" -> [c EXCEPT ![k].score = 11]
          [] kind = "category" ->
                [c EXCEPT ![k].category =
                              IF @ = "Delivery" THEN "Language"
                              ELSE IF @ = "Language" THEN "Content"
                              ELSE "Delivery"]
          [] kind = "name" -> [c EXCEPT ![k].criteria = "Humour"]
          [] kind = "long" -> [c EXCEPT ![k].evaluation = LongText]
          [] OTHER -> c

\* HighlightedSegmentSchema (analyze-speech.ts 41-44)
Segments == { [ text |-> << "so" >>, type |-> "default" ],
              [ text |-> << "um" >>, type |-> "filler" ] }

\* the keys of a JSON object that may be missing from an answer
ClientKeys == { "totalScore", "highlightedTranscription", "suggestedSpeech" }

PageKeys == { "totalScore", "transcription" }

\* The JSON objects the model may answer with.  For the page,
\* overallAssessment stands for totalScore.evaluation (schemas.ts 11, 54).  keys holds the optional or
\* omitted keys that are present.  A JSON object holds a key once, so the
\* page's three criteria objects cannot repeat a criterion; a criterion
\* listed under another category's object is an unknown key there.
ClientOutputs ==
    { [ keys |-> ks, evaluationCriteria |-> Depart(d, k),
        totalScore |-> t, overallAssessment |-> a,
        highlightedTranscription |-> segs, suggestedSpeech |-> ShortText,
        transcription |-> Empty ] :
        a \in { ShortText, LongText },
        ks \in { ClientKeys, ClientKeys \ { "totalScore" },
                 { "totalScore" } },
        d \in Departures, k \in Departed, t \in { 70, 101 },
        segs \in UNION { [1..n -> Segments] : n \in 0..MaxSegments } }

PageOutputs ==
    { [ keys |-> ks, evaluationCriteria |-> Depart(d, k),
        totalScore |-> t, overallAssessment |-> a,
        highlightedTranscription |-> << >>, suggestedSpeech |-> Empty,
        transcription |-> ResultTranscription ] :
        a \in { ShortText, LongText },
        ks \in { PageKeys, PageKeys \ { "totalScore" }, { "totalScore" } },
        d \in Departures \ { "repeat" }, k \in Departed, t \in { 7, 11 } }

\* what ai.generate resolves or rejects with (analyze.ts 88-101,
\* analyze-speech.ts 259-265)
NoOutput == [ kind |-> "no-output" ]

Responses ==
    { NoOutput, [ kind |-> "network-error" ] } \cup
    { [ kind |-> "output", output |-> o ] :
        o \in IF flow = "page" THEN PageOutputs ELSE ClientOutputs }

RangeOf(s) == { s[k] : k \in 1..Len(s) }

\* EvaluationCriterionSchema.score (schemas.ts 10) and the score of an
\* evaluationCriteria item (analyze-speech.ts 132-137)
CriterionScores == 0..10

\* AnalyzeSpeechOutputSchema of the client's flow (analyze-speech.ts
\* 71-175): evaluationCriteria is an array of items, each checked on its own
ClientSchemaValid(o) ==
    /\ "totalScore" \in o.keys
    /\ o.totalScore \in 0..100
    /\ \A k \in 1..Len(o.evaluationCriteria) :
          LET item == o.evaluationCriteria[k]
          IN  /\ item.category \in RangeOf(Categories)
              /\ item.criteria \in RangeOf(Criteria)
              /\ item.score \in CriterionScores

\* the entry a criteria object of the page's schema holds under a key
PageEntries(o, name) ==
    { k \in 1..Len(o.evaluationCriteria) :
        /\ o.evaluationCriteria[k].criteria = name
        /\ o.evaluationCriteria[k].category = CategoryOf(name) }

\* AnalyzeSpeechOutputSchema of the page's flow (schemas.ts 9-59): every
\* criterion is a required key of its category's object
PageSchemaValid(o) ==
    /\ "totalScore" \in o.keys
    /\ o.totalScore \in CriterionScores
    /\ \A name \in RangeOf(Criteria) :
          /\ PageEntries(o, name) # {}
          /\ \A k \in PageEntries(o, name) :
                o.evaluationCriteria[k].score \in CriterionScores

SchemaValid(o) ==
    IF flow = "page" THEN PageSchemaValid(o) ELSE ClientSchemaValid(o)

\* how the model call of a flow ends for an answer: generate rejects when
\* the request fails or the output does not parse under output.schema,
\* and resolves with a null output when the answer holds no JSON
Outcome(r) ==
    IF r.kind # "output" THEN r.kind
    ELSE IF ~SchemaValid(r.output) THEN "schema-invalid"
    ELSE IF flow = "page" /\ "transcription" \in r.output.keys
         THEN "output+transcription"
    ELSE "output"

\* a rejected server action; the null a flow would resolve with if it
\* passed a missing output on; a resolved result
Failure == [ kind |-> "error" ]

OutputOf(r) ==
    IF r.kind = "output" THEN [ kind |-> "result", output |-> r.output ]
    ELSE [ kind |-> "null" ]

\* analyze (analyze.ts 16-18) and analyzeSpeech (analyze-speech.ts 178-182)
Serve(r) ==
    LET reply == IF flow = "page" THEN analysisFlow(Outcome(r))
                 ELSE analyzeSpeechFlow(Outcome(r))
    IN  IF reply = "error" THEN Failure ELSE OutputOf(r)

\* the model answers the request
ModelResponds ==
    /\ response = Unset
    /\ response' \in Responses
    /\ UNCHANGED << returned, dashboard, pdf, wav >>
    /\ UNCHANGED << flow, page, client, browser, analysis, sent, notice,
                    untouched >>

\* the flow body after the model call, and the server action's return
FlowReturns ==
    /\ response # Unset
    /\ returned = Unset
    /\ returned' = Serve(response)
    /\ UNCHANGED << response, dashboard, pdf, wav >>
    /\ UNCHANGED << flow, page, client, browser, analysis, sent, notice,
                    untouched >>


(***************************************************************************)
(* C13.  The caller of analyze / analyzeSpeech receives a failure or a     *)
(* complete result that satisfies the flow's output schema, never null or  *)
(* a partial object; an answer without output always ends in a failure.    *)
(***************************************************************************)
C13_FailureOrCompleteResult ==
    /\ returned # Unset =>
          \/ returned = Failure
          \/ returned.kind = "result" /\ SchemaValid(returned.output)
    /\ (response = NoOutput /\ returned # Unset) => returned = Failure

C13_Witness == response = NoOutput /\ returned = Failure

\* the items of a result's evaluationCriteria that name a criterion
ItemsNaming(o, name) ==
    { k \in 1..Len(o.evaluationCriteria) :
        o.evaluationCriteria[k].criteria = name }

(***************************************************************************)
(* C14.  A result handed back by either flow carries each of the fifteen   *)
(* criteria exactly once, each with a score in 0..10: an answer that       *)
(* omits a criterion, repeats one or scores one outside 0..10 is never     *)
(* returned.                                                               *)
(***************************************************************************)
C14_FifteenCriteriaValidated ==
    returned.kind = "result" =>
        /\ Len(returned.output.evaluationCriteria) = Len(Criteria)
        /\ \A name \in RangeOf(Criteria) :
              Cardinality(ItemsNaming(returned.output, name)) = 1
        /\ \A k \in 1..Len(returned.output.evaluationCriteria) :
              returned.output.evaluationCriteria[k].score \in CriterionScores

(***************************************************************************)
(* The dashboard.  The client's AnalysisDashboard groups the items of      *)
(* evaluationCriteria by the category each item carries                    *)
(* (theme-toggle.tsx 240-247) and renders one card per item under its      *)
(* group, groups in the order Object.entries yields them: the order of     *)
(* first appearance (345-381).  The page walks the fixed table             *)
(* analysisCriteriaGroups and renders a card for every key it finds        *)
(* (page.tsx 348-385, 756-781).                                            *)
(***************************************************************************)
\* the positions at which a category appears for the first time
FirstAppearances(c) ==
    SelectSeq([k \in 1..Len(c) |-> k],
              LAMBDA k : \A j \in 1..(k - 1) : c[j].category # c[k].category)

groupedCriteria(o) ==
    LET c == o.evaluationCriteria
        first == FirstAppearances(c)
    IN  [g \in 1..Len(first) |->
            LET items == SelectSeq(c,
                            LAMBDA it : it.category = c[first[g]].category)
            IN  [ category |-> c[first[g]].category,
                  cards |-> [k \in 1..Len(items) |-> items[k].criteria] ]]

analysisCriteriaGroups(o) ==
    [g \in 1..Len(Categories) |->
        [ category |-> Categories[g],
          cards |-> SelectSeq(SubSeq(Criteria, 5 * g - 4, 5 * g),
                              LAMBDA name : PageEntries(o, name) # {}) ]]

\* the texts of a list, one after the other
RECURSIVE Concat(_)
Concat(texts) ==
    IF texts = << >> THEN << >> ELSE Head(texts) \o Concat(Tail(texts))

\* TranscriptionDisplay (unnamed/part_001 14-31): every segment's text
\* followed by a space; rendered for a non-empty array only
\* (theme-toggle.tsx 272-281)
TranscriptionDisplay(o) ==
    IF "highlightedTranscription" \in o.keys
    THEN Concat([k \in 1..Len(o.highlightedTranscription) |->
                    o.highlightedTranscription[k].text \o << " " >>])
    ELSE << >>

RenderDashboard ==
    /\ returned.kind = "result"
    /\ dashboard = Unset
    /\ dashboard' = [ kind |-> "dashboard",
                      groups |-> IF flow = "page"
                                 THEN analysisCriteriaGroups(returned.output)
                                 ELSE groupedCriteria(returned.output),
                      transcription |->
                                 IF flow = "page" THEN page.transcript
                                 ELSE TranscriptionDisplay(returned.output) ]
    /\ UNCHANGED << response, returned, pdf, wav >>
    /\ UNCHANGED << flow, page, client, browser, analysis, sent, notice,
                    untouched >>

(***************************************************************************)
(* C15.  A result that holds all fifteen criteria and a total score is     *)
(* rendered as three groups, Delivery, Language and Content, of five       *)
(* cards each, one card per criterion, each criterion under its own        *)
(* category.                                                               *)
(***************************************************************************)
C15_OneCardPerCriterion ==
    ( /\ dashboard # Unset
      /\ "totalScore" \in returned.output.keys
      /\ \A name \in RangeOf(Criteria) :
            ItemsNaming(returned.output, name) # {} )
    => /\ Len(dashboard.groups) = Len(Categories)
       /\ { dashboard.groups[g].category : g \in 1..Len(dashboard.groups) }
             = RangeOf(Categories)
       /\ \A g \in 1..Len(dashboard.groups) :
             /\ Len(dashboard.groups[g].cards) = 5
             /\ \A k \in 1..Len(dashboard.groups[g].cards) :
                   CategoryOf(dashboard.groups[g].cards[k])
                      = dashboard.groups[g].category
       /\ \A name \in RangeOf(Criteria) :
             Cardinality({ << g, k >> \in (1..Len(dashboard.groups)) \X (1..6) :
                              /\ k <= Len(dashboard.groups[g].cards)
                              /\ dashboard.groups[g].cards[k] = name }) = 1


(***************************************************************************)
(* PDF export.  Lengths are in tenths of a millimetre, so that             *)
(* line_height / 2 and size * 0.4 stay integral.  A document is the        *)
(* current page, the cursor y and the lines placed so far; doc.text with   *)
(* an array of lines places them one under the other, at the pitch by      *)
(* which the code advances y for each line of the block.  The folds over   *)
(* the items evaluate each step's page before the next step starts.        *)
(***************************************************************************)
pageHeight == 2970     \* doc.internal.pageSize.height of the default A4 page

margin == 150

line_height == 70

\* doc.splitTextToSize: the lines a text wraps to; the empty string is
\* one empty line
splitTextToSize(text) ==
    LET words == SelectSeq(text, LAMBDA w : w # " ")
        n == IF words = << >> THEN 1
             ELSE (Len(words) + LineWords - 1) \div LineWords
    IN  [k \in 1..n |->
            SubSeq(words, (k - 1) * LineWords + 1,
                   IF k * LineWords < Len(words) THEN k * LineWords
                   ELSE Len(words))]

\* doc.text(lines, x, y): n lines from the cursor down; the cursor stays
Text(d, n, pitch, section, heading) ==
    [d EXCEPT !.placed = @ \o
        [k \in 1..n |-> [ page |-> d.page, y |-> d.y + (k - 1) * pitch,
                          section |-> section,
                          heading |-> heading /\ k = 1 ]]]

Down(d, dy) == [d EXCEPT !.y = @ + dy]

\* checkY (pdf.ts 17-22)
checkY(d, increment) ==
    IF d.y + increment > pageHeight - margin
    THEN [d EXCEPT !.page = @ + 1, !.y = margin]
    ELSE d

\* a wrapped block written after checkY(lines.length * line_height)
Block(d, text, section) ==
    LET n == Len(splitTextToSize(text))
    IN  Down(Text(checkY(d, n * line_height), n, line_height, section, FALSE),
             n * line_height)

\* one item of a category (pdf.ts 130-153)
PdfItem(d, item, category) ==
    LET title == Down(Text(checkY(d, line_height * 5), 1, line_height,
                           category, FALSE), line_height)
        eval == Block(title, << "Evaluation:" >> \o item.evaluation, category)
    IN  Down(Block(eval, << "Feedback:" >> \o item.feedback, category), 35)

RECURSIVE PdfItems(_, _, _)
PdfItems(d, items, category) ==
    IF items = << >> THEN d
    ELSE LET next == PdfItem(d, Head(items), category)
         IN  IF next.page >= d.page
             THEN PdfItems(next, Tail(items), category) ELSE next

\* Object.entries(groupedCriteria).forEach (pdf.ts 107-112, 123-155)
RECURSIVE PdfCategories(_, _, _)
PdfCategories(d, c, first) ==
    IF first = << >> THEN d
    ELSE LET category == c[Head(first)].category
             head == Down(Text(checkY(d, line_height * 2), 1, line_height,
                               category, TRUE), line_height)
             next == PdfItems(head,
                              SelectSeq(c, LAMBDA it : it.category = category),
                              category)
         IN  IF next.page >= d.page
             THEN PdfCategories(next, c, Tail(first)) ELSE next

\* the transcription the PDF prints (pdf.ts 64)
RECURSIVE Join(_)
Join(texts) ==
    IF texts = << >> THEN << >>
    ELSE IF Len(texts) = 1 THEN texts[1]
    ELSE texts[1] \o << " " >> \o Join(Tail(texts))

fullText(o) ==
    IF "highlightedTranscription" \in o.keys
    THEN Join([k \in 1..Len(o.highlightedTranscription) |->
                  o.highlightedTranscription[k].text])
    ELSE << >>

\* metrics.forEach (pdf.ts 82-105)
RECURSIVE PdfMetrics(_, _)
PdfMetrics(d, n) ==
    IF n = 0 THEN d
    ELSE LET next == Down(Text(checkY(d, 0), 1, line_height, "Key Metrics",
                               FALSE), line_height)
         IN  IF next.page >= d.page THEN PdfMetrics(next, n - 1) ELSE next

\* generatePdfReport (pdf.ts 5-178)
generatePdfReport(o) ==
    LET title == Down(Text([ page |-> 1, y |-> 200, placed |-> << >> ],
                           1, line_height, "Title", TRUE), line_height * 2)
        overall == Down(Text(title, 1, line_height, "Overall Assessment",
                             TRUE), line_height * 2)
        total == Down(Text(overall, 1, line_height, "Overall Assessment",
                           FALSE), line_height)
        nA == Len(splitTextToSize(o.overallAssessment))
        assessment == Down(Text(total, nA, line_height, "Overall Assessment",
                                FALSE), nA * line_height + line_height)
        nT == Len(splitTextToSize(fullText(o)))
        transcription ==
            IF "highlightedTranscription" \in o.keys
               /\ Len(o.highlightedTranscription) > 0
            THEN LET h == Down(Text(checkY(assessment, line_height * 3), 1,
                                    line_height, "Full Transcription", TRUE),
                               line_height * 2)
                 IN  Down(Text(h, nT, line_height, "Full Transcription",
                               FALSE), nT * line_height + line_height)
            ELSE assessment
        key == Down(Text(checkY(transcription, line_height * 2), 1,
                         line_height, "Key Metrics", TRUE), line_height * 2)
        metrics == Down(PdfMetrics(key, 8), line_height)
        detailed == Down(Text(checkY(metrics, line_height * 2), 1,
                              line_height, "Detailed Feedback", TRUE),
                         line_height * 2)
        categories == PdfCategories(detailed, o.evaluationCriteria,
                                    FirstAppearances(o.evaluationCriteria))
        suggested ==
            IF "suggestedSpeech" \in o.keys /\ Truthy(o.suggestedSpeech)
            THEN LET h == Down(Text(checkY(categories, line_height * 3), 1,
                                    line_height,
                                    "Suggested Delivery Example", TRUE),
                               line_height * 2)
                 IN  Block(h, o.suggestedSpeech,
                           "Suggested Delivery Example")
            ELSE categories
    IN  suggested.placed

\* addText (page.tsx 285-295): the only page break is taken before a
\* block, when the cursor has passed 280
addText(d, text, size, section, heading) ==
    LET at == IF d.y > 2800 THEN [d EXCEPT !.page = @ + 1, !.y = 150] ELSE d
        n == Len(splitTextToSize(text))
    IN  Down(Text(at, n, size * 4, section, heading), n * size * 4)

\* addCriterion (page.tsx 297-302)
addCriterion(d, evaluation, feedback, section) ==
    LET title == addText(d, ShortText, 12, section, FALSE)
        eval == addText(title, << "Evaluation:" >> \o evaluation, 10,
                        section, FALSE)
    IN  Down(addText(eval, << "Feedback:" >> \o feedback, 10, section, FALSE),
             50)

RECURSIVE AddCriteria(_, _, _, _)
AddCriteria(d, o, names, section) ==
    IF names = << >> THEN d
    ELSE LET item == o.evaluationCriteria[
                        CHOOSE k \in PageEntries(o, Head(names)) : TRUE]
             next == addCriterion(d, item.evaluation, item.feedback, section)
         IN  IF next.page >= d.page
             THEN AddCriteria(next, o, Tail(names), section) ELSE next

\* analysisCriteriaGroups.forEach (page.tsx 332-343)
RECURSIVE AddGroups(_, _, _)
AddGroups(d, o, groups) ==
    IF groups = << >> THEN d
    ELSE LET next == AddCriteria(addText(d, ShortText, 14,
                                         Head(groups).category, TRUE),
                                 o, Head(groups).cards, Head(groups).category)
         IN  IF next.page >= d.page
             THEN AddGroups(next, o, Tail(groups)) ELSE next

\* the six lines under Speech Metrics (page.tsx 323-329)
RECURSIVE AddMetrics(_, _)
AddMetrics(d, n) ==
    IF n = 0 THEN d
    ELSE LET next == addText(d, ShortText, 10, "Speech Metrics", FALSE)
         IN  IF next.page >= d.page THEN AddMetrics(next, n - 1) ELSE next

\* handleDownloadPdf (page.tsx 267-346), which reads the transcript state
handleDownloadPdf(o, transcript) ==
    LET title == Down(addText([ page |-> 1, y |-> 150, placed |-> << >> ],
                              ShortText, 18, "Title", TRUE), 100)
        overall == addCriterion(addText(title, ShortText, 14,
                                        "Overall Assessment", TRUE),
                                o.overallAssessment, ShortText,
                                "Overall Assessment")
        transcription ==
            IF Truthy(transcript)
            THEN Down(addText(addText(overall, ShortText, 14,
                                      "Transcription", TRUE),
                              transcript, 10, "Transcription", FALSE), 50)
            ELSE overall
        metrics == Down(AddMetrics(addText(transcription, ShortText, 14,
                                           "Speech Metrics", TRUE), 6), 50)
    IN  AddGroups(metrics, o, analysisCriteriaGroups(o)).placed

\* the Download PDF button (page.tsx 662, client 332-336)
ExportPdf ==
    /\ returned.kind = "result"
    /\ pdf' = [ kind |-> "pdf",
                placed |-> IF flow = "page"
                           THEN handleDownloadPdf(returned.output,
                                                  page.transcript)
                           ELSE generatePdfReport(returned.output),
                transcription |->
                           IF flow = "page"
                           THEN IF Truthy(page.transcript)
                                THEN << "\"" >> \o page.transcript \o << "\"" >>
                                ELSE << >>
                           ELSE fullText(returned.output) ]
    /\ UNCHANGED << response, returned, dashboard, wav >>
    /\ UNCHANGED << flow, page, client, browser, analysis, sent, notice,
                    untouched >>


(***************************************************************************)
(* C16.  No line of an exported PDF is placed below the bottom margin of   *)
(* its page, whatever the length of the text fields.                       *)
(***************************************************************************)
C16_NoLineBelowMargin ==
    pdf # Unset =>
        \A k \in 1..Len(pdf.placed) : pdf.placed[k].y <= pageHeight - margin

\* the headings of an exported PDF, in the order they were placed
Sections(p) ==
    LET heads == SelectSeq(p.placed, LAMBDA l : l.heading)
    IN  [k \in 1..Len(heads) |-> heads[k].section]

\* the place of a heading in the order Overall, Transcription, Metrics,
\* Detailed Feedback per category, Suggested rephrasing
SectionRank(section) ==
    CASE section = "Title" -> 0
      [] section = "Overall Assessment" -> 1
      [] section \in { "Transcription", "Full Transcription" } -> 2
      [] section \in { "Speech Metrics", "Key Metrics" } -> 3
      [] section = "Detailed Feedback" -> 4
      [] section \in RangeOf(Categories) -> 5
      [] section = "Suggested Delivery Example" -> 6

(***************************************************************************)
(* C17.  Every exported PDF emits its sections in the order Overall,       *)
(* Transcription, Metrics, Detailed Feedback per category, Suggested       *)
(* rephrasing, and a second export of the same result emits the same       *)
(* sequence of sections and categories as the first.                       *)
(***************************************************************************)
C17_DeterministicSections ==
    /\ [](pdf # Unset =>
            \A j, k \in 1..Len(Sections(pdf)) :
               j < k =>
                  \/ SectionRank(Sections(pdf)[j]) < SectionRank(Sections(pdf)[k])
                  \/ /\ Sections(pdf)[j] \in RangeOf(Categories)
                     /\ Sections(pdf)[k] \in RangeOf(Categories)
                     /\ Sections(pdf)[j] # Sections(pdf)[k])
    /\ [][(pdf # Unset /\ pdf' # Unset /\ returned' = returned)
             => Sections(pdf') = Sections(pdf)]_vars

(***************************************************************************)
(* C18.  For a result of the client's flow, the transcription the          *)
(* dashboard displays (up to the white space that ends the paragraph)      *)
(* and the transcription the PDF prints both equal the texts of the        *)
(* highlighted segments concatenated in order.                             *)
(***************************************************************************)
C18_TranscriptionIsConcatenation ==
    (flow = "client" /\ returned.kind = "result"
        /\ "highlightedTranscription" \in returned.output.keys)
    => LET segments == returned.output.highlightedTranscription
           whole == Concat([k \in 1..Len(segments) |-> segments[k].text])
       IN  /\ dashboard # Unset => TrimEnd(dashboard.transcription) = whole
           /\ pdf # Unset => pdf.transcription = whole

(***************************************************************************)
(* C19.  A displayed result belongs to the request started last: a step    *)
(* that starts a request leaves no result on display, and a step that      *)
(* puts a result on display puts up the result of the request that was     *)
(* started most recently.                                                  *)
(***************************************************************************)
C19_LatestRequestDisplayed ==
    [][ /\ sent' # NoRequest => AnalysisResult' = 0
        /\ (AnalysisResult' # 0 /\ AnalysisResult' # AnalysisResult)
              => \E c \in calls : c.id = AnalysisResult' /\ c.newest ]_vars

(***************************************************************************)
(* C20.  A getUserMedia request that ends without a recorder being         *)
(* created (microphone access denied) raises a notice and changes nothing  *)
(* else: the recording flag, the recorders, mediaRecorderRef, the held     *)
(* audio and every other piece of component state stay as they were, so    *)
(* the controls are as usable as before.                                   *)
(***************************************************************************)
C20_MicDeniedConfined ==
    [][ (gumPending' < gumPending /\ Created' = Created)
          => /\ notice' \in { "Microphone Access Denied", "Microphone Error" }
             /\ RecordingFlag' = RecordingFlag
             /\ recorders' = recorders
             /\ mediaRecorderRef' = mediaRecorderRef
             /\ page' = page
             /\ client' = client
             /\ recognition' = recognition ]_vars

C20_Witness ==
    /\ notice \in { "Microphone Access Denied", "Microphone Error" }
    /\ ~RecordingFlag
    /\ Created = {}
    /\ NoAudioHeld

C22_OnlyThisSessionsText ==
    [][ ( /\ flow = "client"
          /\ client.isListening
          /\ client.transcript = Empty
          /\ client.transcript' # Empty )
        => client.transcript'
              = SubSeq(client.transcript', Len(final_transcript) + 1,
                       Len(client.transcript')) ]_vars

(***************************************************************************)
(* The speech sample on its way into the prompt: what the user may put     *)
(* into the transcript Textarea is any string, one that begins with        *)
(* "data:" included.                                                       *)
(***************************************************************************)
\* typing or pasting into the transcript Textarea (client 388-394), the
\* texts including one that begins with "data:"
ClientTypeSample ==
    /\ flow = "client"
    /\ client.currentTab = "live"
    /\ ~client.isListening
    /\ \E t \in TypedTexts \cup { << "data:", "hi" >> } :
          client' = [client EXCEPT !.transcript = t]
    /\ untouched' = FALSE
    /\ notice' = "none"
    /\ sent' = NoRequest
    /\ UNCHANGED << flow, report, page, browser, analysis >>

\* the part analyzeSpeechFlow pushes for the sample (analyze-speech.ts
\* 247-256)
promptParts(input) ==
    IF StartsWithData(input.speechSample) THEN "media" ELSE "text"

SampleNext ==
    \/ ClientTypeSample
    \/ handleFileChange
    \/ clearAudio
    \/ ClientTabChange
    \/ ClientAnalyzeRejected
    \/ ClientAnalyzeText
    \/ ClientAnalyzeAudio
    \/ ClientReaderLoaded
    \/ ReaderError
    \/ FlowResponds
    \/ ClientAnalyzeSettled

SpecSample == InitPipeline /\ [][SampleNext]_vars

\* C23: every request of the client is classified as audio by
\* analyzeSpeechFlow exactly when its sample was read from an audio blob:
\* a sample taken from the transcript becomes a text part, a sample read
\* from a recording or an uploaded file becomes a media part.
C23_AudioIffBlob ==
    [][ (flow = "client" /\ sent' # NoRequest)
        => (promptParts(sent') = "media" <=> readers' # readers) ]_vars

\* C24: a request sent in Presentation mode carries neither a question nor
\* a perfect answer, and a request sent in Interview mode carries no
\* perfect answer, whatever the user typed into those fields before the
\* mode was switched.
C24_ContextMatchesMode ==
    sent # NoRequest
    => /\ sent.mode \in { "presentation", "Presentation Mode" }
            => sent.question = Undefined /\ sent.perfectAnswer = Undefined
       /\ sent.mode \in { "interview", "Interview Mode" }
            => sent.perfectAnswer = Undefined

\* C25: a rejected Analyze action changes nothing but the notice.  A step
\* that raises one of the validation notices leaves the component's state
\* (result, pending flag, transcript, audio, context), the recogniser, the
\* recorders and the calls in flight exactly as they were, and sends
\* nothing.
C25_RejectionChangesOnlyNotice ==
    [][ notice' \in { "Question is empty.", "Perfect Answer is empty.",
                      "Your speech is empty.", "No audio recorded.",
                      "No file selected.", "No transcription provided.",
                      "No audio provided.",
                      "Please enter an interview question.",
                      "Please enter both question and perfect answer." }
        => /\ page' = page
           /\ client' = client
           /\ calls' = calls
           /\ sent' = NoRequest
           /\ UNCHANGED browser ]_vars

\* a click is rejected while an earlier result is on display
C25_Witness ==
    /\ notice \in { "Question is empty.", "Perfect Answer is empty.",
                    "Your speech is empty.", "No file selected.",
                    "No transcription provided.", "No audio provided.",
                    "Please enter an interview question.",
                    "Please enter both question and perfect answer." }
    /\ AnalysisResult # 0
    /\ ~PendingFlag

(***************************************************************************)
(* The pipeline with its scheduling: the inference call eventually returns *)
(* or fails, and the continuation of an awaited promise that has settled   *)
(* is eventually run by the event loop.                                    *)
(***************************************************************************)
FairPipeline ==
    /\ SpecPipeline
    /\ WF_vars(FlowResponds)
    /\ WF_vars(PageAnalyzeSettled)
    /\ WF_vars(ClientAnalyzeSettled)

\* C26: every accepted Analyze action eventually completes.  Whenever the
\* pending flag is set it is eventually cleared, and the step that clears
\* it either displays a result or raises the failure notice.
C26_AnalyzeEventuallyCompletes ==
    /\ PendingFlag ~> ~PendingFlag
    /\ [][ (PendingFlag /\ ~PendingFlag')
           => (AnalysisResult' # 0 \/ notice' = "Analysis Failed") ]_vars

\* every accepted action has completed and a result is on display
C26_Witness ==
    /\ nextId = MaxAnalyze
    /\ calls = {}
    /\ readers = {}
    /\ ~PendingFlag
    /\ AnalysisResult # 0

\* C27: the listening flag tracks the recognition session.  In every state
\* in which the recogniser has no event to deliver (no session is ending
\* and no error is queued), the flag is set exactly when a session is
\* running.
C27_ListeningFlagTracksSession ==
    (recognition # "stopping" /\ recError = "none")
    => (ListeningFlag <=> recognition = "running")

\* a session is running, has delivered text, and the flag is set
C27_Witness ==
    /\ recognition = "running"
    /\ recError = "none"
    /\ ListeningFlag
    /\ Transcript # Empty

\* C28: in the client the audio preview and the audio payload are set and
\* cleared together.  In every state audioURL is null exactly when
\* audioBlob is null, and otherwise the URL is the one created from that
\* blob.
C28_PreviewIsPayload ==
    flow = "client" => client.audioURL = client.audioBlob

\* the onstop of a recorder arrives on the upload tab and sets both
C28_Witness ==
    /\ flow = "client"
    /\ client.currentTab = "upload"
    /\ client.audioBlob # Null
    /\ client.audioBlob.type = "audio/webm"
    /\ client.audioURL = client.audioBlob

\* C29: in the page the audio that can be played back is the audio Analyze
\* would submit.  Whenever audioUrl is set it is the URL of the source the
\* input mode selects (audioBlob on the record tab, audioFile on the upload
\* tab), and audioBlob and audioFile are never both set.
C29_PlaybackIsSubmission ==
    flow = "page"
    => /\ page.audioUrl # Null => page.audioUrl = PageAudioSource(page)
       /\ ~(page.audioBlob # Null /\ page.audioFile # Null)

(***************************************************************************)
(* encodeWAV (lib/pdf.ts 188-227): 16-bit mono PCM in a RIFF container.    *)
(* A sample is a float, here one of a few values inside and outside        *)
(* [-1, 1]; a chunk is a Float32Array, here a sequence of samples.  A      *)
(* DataView write that does not fit the buffer throws RangeError, and      *)
(* encodeWAV then returns nothing.  The header fields are unsigned 32-bit  *)
(* integers; every value written here is far below 2^32.                   *)
(***************************************************************************)
\* the Float32Array chunks of at most MaxChunkLen samples
Chunks == UNION { [1..n -> { -2, 1 }] : n \in 0..MaxChunkLen }

\* samples.reduce((acc, val) => acc + val.length, 0) (lib/pdf.ts 208)
RECURSIVE totalSamples(_)
totalSamples(samples) ==
    IF samples = << >> THEN 0
    ELSE Len(Head(samples)) + totalSamples(Tail(samples))

\* the 16-bit value written for a sample (lib/pdf.ts 202-203)
Int16(x) ==
    LET s == IF x < -1 THEN -1 ELSE IF x > 1 THEN 1 ELSE x
    IN  IF s < 0 THEN s * 32768 ELSE s * 32767

\* floatTo16BitPCM (lib/pdf.ts 199-207) on a buffer of byteLength bytes:
\* the values written from offset on, and whether a write fell outside
floatTo16BitPCM(byteLength, offset, input) ==
    LET flat == Concat(input)
        room == IF byteLength >= offset THEN (byteLength - offset) \div 2 ELSE 0
        n == IF Len(flat) <= room THEN Len(flat) ELSE room
    IN  [ written |-> [k \in 1..n |-> Int16(flat[k])],
          thrown |-> Len(flat) > room ]

encodeWAV(samples, sampleRate) ==
    LET byteLength == 44 + Len(samples) * 2 * Len(samples[1])
        pcm == floatTo16BitPCM(byteLength, 44, samples)
    IN  IF pcm.thrown
        THEN [ kind |-> "RangeError", byteLength |-> byteLength ]
        ELSE [ kind |-> "blob",
               type |-> "audio/wav",
               byteLength |-> byteLength,
               riffSize |-> 36 + totalSamples(samples) * 2,
               sampleRate |-> sampleRate,
               byteRate |-> sampleRate * 2,
               dataSize |-> totalSamples(samples) * 2,
               data |-> pcm.written ]

\* a caller holds a non-empty list of chunks
InitEncode ==
    /\ Mounted({ TRUE })
    /\ maxClicks = 0
    /\ \E n \in 1..MaxChunks :
          \E samples \in [1..n -> Chunks], rate \in { 16000, 44100 } :
             wav = [ samples |-> samples, sampleRate |-> rate, blob |-> Unset ]

\* the call of encodeWAV
Encode ==
    /\ wav.blob = Unset
    /\ wav' = [wav EXCEPT !.blob = encodeWAV(wav.samples, wav.sampleRate)]
    /\ UNCHANGED << flow, page, client, browser, analysis, sent, notice,
                    untouched, response, returned, dashboard, pdf >>

SpecEncode == InitEncode /\ [][Encode]_vars

\* C30: encodeWAV sizes its output consistently for every non-empty list
\* of chunks.  The call returns a blob whose buffer is 44 + 2 x (total
\* number of samples) bytes long, which is the data size written at offset
\* 40 plus 44, and no sample write falls outside the buffer.
C30_ConsistentSizes ==
    wav.blob # Unset
    => /\ wav.blob.kind = "blob"
       /\ wav.blob.byteLength = 44 + 2 * totalSamples(wav.samples)
       /\ wav.blob.byteLength = wav.blob.dataSize + 44

\* an answer followed from the model to the exported report
InitReport == Mounted({ TRUE }) /\ maxClicks = 0 /\ wav = Unset

ReportNext ==
    \/ ModelResponds
    \/ FlowReturns
    \/ RenderDashboard
    \/ ExportPdf
    \/ PageTypeTranscript

SpecReport == InitReport /\ [][ReportNext]_vars

====
